---- MODULE Spec2Model ----
(***************************************************************************)
(* IndexerFactory<T> of nestjs-indexer (T = number): the per-indexer       *)
(* coordination engine.  The shared state is the cursor in the KV store    *)
(* and the Redis keys of one indexer; every process is one caller that     *)
(* runs one engine operation at a time.  Every await on the store or on    *)
(* Redis is one step, so calls of different processes interleave between   *)
(* any two round trips.  A Redis pipeline is one step (one round trip).    *)
(***************************************************************************)
EXTENDS Integers, Sequences, FiniteSets, TLC

\* ---------------------------------------------------------------- bounds
NumProcs == 2          \* concurrent callers
LatestAt == 2          \* an overridden onHandleLatest is c >= LatestAt
MaxCursor == 3         \* with the default onHandleLatest: no atomic() call is
                       \* started once the cursor is here
MaxEpoch == 1          \* rollback() is not called at or beyond this epoch
MaxQueue == 3          \* longest live-task list / retry queue explored
MaxLive == 2           \* longest live-task list a cleanup specification starts from

\* --------------------------------------------------------------- values
NULL == -1             \* null / undefined / absent key
Procs == 1..NumProcs
NoProc == 0
NoStr == "nil"         \* a null reply of LPOP

\* JS truthiness of a number | null | undefined
Truthy(v) == v # NULL /\ v # 0

JSONstringify(v) == ToString(v)
JSONparse(s) == CHOOSE v \in 0..(MaxCursor + NumProcs + 1) : ToString(v) = s

\* ---------------------------------------------------------------- state
VARIABLES
  config,     \* [redis, concurrency, initial]: the @Indexer options, and
              \* latest: whether the subclass overrides onHandleLatest,
              \* initialFn: what an overridden onHandleInitial returns (NULL
              \* when it is not overridden)
  store,      \* storage item indexer:<name> (NULL when absent)
  lock,       \* holder of the lock indexer:<name>:current (NoProc when free)
  live,       \* list indexer:<name>:concurrency
  shadow,     \* the set of s with key indexer:<name>:concurrency:shadow:<s>
  retry,      \* list indexer:<name>:failed
  epoch,      \* key indexer:<name>:epoch (absent reads as 0)
  ttl,        \* [live, retry]: whether the list key carries an expiry
  proc,       \* per caller: position and locals of the running call
  hist        \* history: what has been returned / dispatched so far

vars == <<config, store, lock, live, shadow, retry, epoch, ttl, proc, hist>>
redisVars == <<lock, live, shadow, retry, epoch, ttl>>

Idle ==
  [pc |-> "idle", op |-> "none", start |-> NULL, ended |-> NULL, ep |-> NULL,
   cur |-> NULL, target |-> NULL, snap |-> <<>>, retry |-> TRUE,
   err |-> "", errv |-> NULL,
   \* history of the call: it has occupied and not released; its start had
   \* already succeeded when it was dispatched; a rollback incremented the
   \* epoch / a reset deleted it after ep was read
   held |-> FALSE, again |-> FALSE, rolled |-> FALSE, wiped |-> FALSE,
   \* what validate() returned
   valid |-> FALSE,
   \* a reset deleted the lock key while the call was inside its using block
   robbed |-> FALSE,
   \* a rollback completed after the call's start was claimed or dequeued
   stale |-> FALSE]

\* history variables (they never influence a step): the starts atomic() has
\* returned and whether one was returned twice, the starts whose callback
\* resolved, the largest epoch the key ever held.  observe says which of them
\* a specification records.
HistInit(observe) ==
  [observe |-> observe, claimed |-> {}, dup |-> FALSE, succeeded |-> {},
   maxEpoch |-> 0,
   \* the values fail() has pushed and failed() has returned, in order
   pushed |-> <<>>, popped |-> <<>>,
   \* the lists a cleanup specification starts from, and whether a
   \* cleanup() call has returned
   live0 |-> <<>>, retry0 |-> <<>>, cleaned |-> FALSE,
   \* the starts passed to a callback, and those passed more than once
   dispatched |-> {}, redispatched |-> {}]

InitWith(redis, concs, initials, latests, observe) ==
  /\ config \in [redis : redis, concurrency : concs, initial : initials,
                  latest : latests, initialFn : {NULL}]
  /\ store = NULL
  /\ lock = NoProc
  /\ live = <<>>
  /\ shadow = {}
  /\ retry = <<>>
  /\ epoch = 0
  /\ ttl = [live |-> FALSE, retry |-> FALSE]
  /\ proc = [p \in Procs |-> Idle]
  /\ hist = HistInit(observe)

\* ----------------------------------------------------------- user hooks
\* the subclass's onHandleStep
onHandleStep(c) == c + 1

\* onHandleLatest: false by default, a threshold when overridden
onHandleLatest(c) == IF config.latest THEN c >= LatestAt ELSE FALSE

\* onHandleInitial: this.indicator = config.initial, unless overridden
onHandleInitial ==
  IF config.initialFn # NULL THEN config.initialFn ELSE config.initial

\* ------------------------------------------------------ cursor controller
\* current(): the stored value, else initial(), which reads the store again
\* and falls back to onHandleInitial()
current == IF store # NULL THEN store ELSE onHandleInitial

\* latest(): onHandleLatest(current())
latest == onHandleLatest(current)

\* epoch(): GET epoch, absent or no redis is 0
epochGet == IF config.redis THEN epoch ELSE 0

\* validate(e): currentEpoch === e
validate(e) == epochGet = e

\* ------------------------------------------------------------- plumbing
Set(p, r) == proc' = [proc EXCEPT ![p] = r]
At(p, label) == proc[p].pc = label
Max(a, b) == IF a > b THEN a ELSE b

\* throw: the call ends with an error
Throw(p, e, v) ==
  Set(p, [Idle EXCEPT !.pc = "done", !.op = proc[p].op, !.err = e, !.errv = v])

\* return: the call ends; only what the caller receives stays in proc[p]
Return(p) ==
  Set(p, [Idle EXCEPT !.pc = "done", !.op = proc[p].op, !.err = proc[p].err,
                      !.held = proc[p].held])

\* no call is running: the caller may make one (the last call's result stays
\* visible in proc[p] until then)
Free(p) == proc[p].pc \in {"idle", "done"}

\* ------------------------------------------------------------- atomic()
\* (mutant) atomic() does not test for the lock
AtomicCallNoCheck(p) ==
  /\ Free(p)
  /\ Set(p, [Idle EXCEPT !.pc = "at_lock", !.op = "atomic"])
  /\ UNCHANGED <<config, store, redisVars, hist>>

\* if (!this.currentLock) throw
AtomicCall(p) ==
  /\ Free(p)
  /\ config.latest \/ (IF store # NULL THEN store ELSE config.initial) < MaxCursor
  /\ IF config.redis
       THEN Set(p, [Idle EXCEPT !.pc = "at_lock", !.op = "atomic"])
       ELSE Set(p, [Idle EXCEPT !.pc = "done", !.op = "atomic", !.err = "NoLock"])
  /\ UNCHANGED <<config, store, redisVars, hist>>

\* (mutant) acquire without waiting for the holder: no mutual exclusion
AtomicLockNoMutex(p) ==
  /\ At(p, "at_lock")
  /\ lock' = p
  /\ Set(p, [proc[p] EXCEPT !.pc = "at_current"])
  /\ UNCHANGED <<config, store, live, shadow, retry, epoch, ttl, hist>>

\* currentLock.using: acquire
AtomicLock(p) ==
  /\ At(p, "at_lock")
  /\ lock = NoProc
  /\ lock' = p
  /\ Set(p, [proc[p] EXCEPT !.pc = "at_current"])
  /\ UNCHANGED <<config, store, live, shadow, retry, epoch, ttl, hist>>

\* (mutant) the lock is given up once the cursor has been read
AtomicCurrentUnlocks(p) ==
  /\ At(p, "at_current")
  /\ lock' = NoProc
  /\ Set(p, [proc[p] EXCEPT !.pc = "at_latest", !.start = current])
  /\ UNCHANGED <<config, store, live, shadow, retry, epoch, ttl, hist>>

\* start = await this.current()
AtomicCurrent(p) ==
  /\ At(p, "at_current")
  /\ Set(p, [proc[p] EXCEPT !.pc = "at_latest", !.start = current])
  /\ UNCHANGED <<config, store, redisVars, hist>>

\* (mutant) the terminal predicate is not consulted
AtomicLatestUnchecked(p) ==
  /\ At(p, "at_latest")
  /\ Set(p, [proc[p] EXCEPT !.pc = "at_next"])
  /\ UNCHANGED <<config, store, redisVars, hist>>

\* if (await this.latest()) throw ReachedLatest(start); using releases the lock
AtomicLatest(p) ==
  /\ At(p, "at_latest")
  /\ IF latest
       THEN /\ Throw(p, "ReachedLatest", proc[p].start)
            /\ lock' = IF lock = p THEN NoProc ELSE lock
       ELSE /\ Set(p, [proc[p] EXCEPT !.pc = "at_next"])
            /\ lock' = lock
  /\ UNCHANGED <<config, store, live, shadow, retry, epoch, ttl, hist>>

\* (mutant) ended is computed but start is written back
AtomicNextStale(p) ==
  /\ At(p, "at_next")
  /\ store' = proc[p].start
  /\ Set(p, [proc[p] EXCEPT !.pc = "at_epoch", !.ended = onHandleStep(proc[p].start)])
  /\ UNCHANGED <<config, redisVars, hist>>

\* ended = await this.step(start); await this.next(ended)
AtomicNext(p) ==
  /\ At(p, "at_next")
  /\ store' = onHandleStep(proc[p].start)
  /\ Set(p, [proc[p] EXCEPT !.pc = "at_epoch", !.ended = onHandleStep(proc[p].start)])
  /\ UNCHANGED <<config, redisVars, hist>>

\* (mutant) atomic() returns without releasing the lock
AtomicEpochKeepsLock(p) ==
  /\ At(p, "at_epoch")
  /\ Set(p, [proc[p] EXCEPT !.ep = epochGet, !.robbed = FALSE,
                            !.pc = IF proc[p].op = "atomic" THEN "done" ELSE "co_occupy"])
  /\ UNCHANGED <<config, store, redisVars, hist>>

\* epoch = await this.epoch(); the using block ends and releases the lock;
\* return [start, ended, epoch]
AtomicEpoch(p) ==
  /\ At(p, "at_epoch")
  /\ lock' = IF lock = p THEN NoProc ELSE lock
  /\ Set(p, [proc[p] EXCEPT !.ep = epochGet, !.robbed = FALSE,
                            !.pc = IF proc[p].op = "atomic" THEN "done" ELSE "co_occupy"])
  /\ hist' = IF "claims" \in hist.observe
               THEN [hist EXCEPT !.claimed = @ \cup {proc[p].start},
                                 !.dup = @ \/ proc[p].start \in hist.claimed]
               ELSE hist
  /\ UNCHANGED <<config, store, live, shadow, retry, epoch, ttl>>

atomic(p) ==
  \/ AtomicLock(p)
  \/ AtomicCurrent(p)
  \/ AtomicLatest(p)
  \/ AtomicNext(p)
  \/ AtomicEpoch(p)

\* ------------------------------------------------------ Redis commands
CleanupLremCount == 5
ReleaseLremCount == 1

Range(s) == {s[i] : i \in 1..Len(s)}

\* LREM key count element (count > 0): drop the first count occurrences
RECURSIVE LREM(_, _, _)
LREM(list, count, s) ==
  IF list = <<>> \/ count = 0 THEN list
  ELSE IF Head(list) = s THEN LREM(Tail(list), count - 1, s)
  ELSE <<Head(list)>> \o LREM(Tail(list), count, s)

\* a list key that becomes empty is deleted, and its expiry with it
TtlOf(list, had) == IF list = <<>> THEN FALSE ELSE had

\* --------------------------------------------- occupy / release / fail
\* occupy(start): RPUSH live; SET shadow EX runningTimeout; EXPIRE live
occupy(p) ==
  LET s == JSONstringify(proc[p].start) IN
  /\ Len(live) < MaxQueue
  /\ live' = Append(live, s)
  /\ shadow' = shadow \cup {s}
  /\ ttl' = [ttl EXCEPT !.live = TRUE]
  /\ UNCHANGED <<lock, retry, epoch>>

\* release(start): LREM live 1; DEL shadow
release(p) ==
  LET s == JSONstringify(proc[p].start) IN
  /\ live' = LREM(live, ReleaseLremCount, s)
  /\ shadow' = shadow \ {s}
  /\ ttl' = [ttl EXCEPT !.live = TtlOf(live', @)]
  /\ UNCHANGED <<lock, retry, epoch>>

\* (mutant) LPUSH instead of RPUSH
failFront(p) ==
  /\ Len(retry) < MaxQueue
  /\ retry' = <<JSONstringify(proc[p].start)>> \o retry
  /\ ttl' = [ttl EXCEPT !.retry = TRUE]
  /\ UNCHANGED <<lock, live, shadow, epoch>>

\* fail(start): RPUSH failed; EXPIRE failed retryTimeout
fail(p) ==
  /\ Len(retry) < MaxQueue
  /\ retry' = Append(retry, JSONstringify(proc[p].start))
  /\ ttl' = [ttl EXCEPT !.retry = TRUE]
  /\ UNCHANGED <<lock, live, shadow, epoch>>

\* failed(): LPOP failed, JSON.parse
failedReply == IF retry = <<>> THEN NoStr ELSE Head(retry)
failedValue == IF failedReply = NoStr THEN NULL ELSE JSONparse(failedReply)

\* a caller invokes fail(v): if (!this.redis) return
FailCall(p, v) ==
  /\ Free(p)
  /\ Len(hist.pushed) < MaxQueue
  /\ IF config.redis
       THEN Set(p, [Idle EXCEPT !.pc = "fl_rpush", !.op = "fail", !.start = v])
       ELSE Set(p, [Idle EXCEPT !.pc = "done", !.op = "fail"])
  /\ UNCHANGED <<config, store, redisVars, hist>>

\* the pipeline of fail(v) has run; fail returns
FailPush(p) ==
  /\ At(p, "fl_rpush")
  /\ fail(p)
  /\ Return(p)
  /\ hist' = IF "fifo" \in hist.observe
               THEN [hist EXCEPT !.pushed = Append(@, proc[p].start)]
               ELSE hist
  /\ UNCHANGED <<config, store>>

\* a caller invokes failed(): if (!this.redis) return null
FailedCall(p) ==
  /\ Free(p)
  /\ IF config.redis
       THEN Set(p, [Idle EXCEPT !.pc = "fd_lpop", !.op = "failed"])
       ELSE Set(p, [Idle EXCEPT !.pc = "done", !.op = "failed"])
  /\ UNCHANGED <<config, store, redisVars, hist>>

\* failed = LPOP failed; if (failed) return JSON.parse(failed); return null
\* (the value returned is kept in start; NULL is null)
FailedPop(p) ==
  /\ At(p, "fd_lpop")
  /\ retry' = IF retry = <<>> THEN retry ELSE Tail(retry)
  /\ ttl' = [ttl EXCEPT !.retry = TtlOf(retry', @)]
  /\ Set(p, [Idle EXCEPT !.pc = "done", !.op = "failed", !.start = failedValue])
  /\ hist' = IF "fifo" \in hist.observe /\ retry # <<>>
               THEN [hist EXCEPT !.popped = Append(@, failedValue)]
               ELSE hist
  /\ UNCHANGED <<config, store, lock, live, shadow, epoch>>

\* ------------------------------------------------------------ consume()
\* (mutant) the cap counts as reached only above the configured number
AdmittedOffByOne == ~(Truthy(config.concurrency) /\ Len(live) > config.concurrency)

\* the admission test: if (this.concurrency) { if (LLEN >= concurrency) return }
Admitted == ~(Truthy(config.concurrency) /\ Len(live) >= config.concurrency)

\* if (!this.redis || !this.currentLock) throw; then the admission test
ConsumeCall(p, r) ==
  /\ Free(p)
  /\ IF config.redis
       THEN Set(p, [Idle EXCEPT !.op = "consume", !.retry = r,
                                !.pc = IF Admitted THEN "co_failed" ELSE "done"])
       ELSE Set(p, [Idle EXCEPT !.pc = "done", !.op = "consume", !.retry = r,
                                !.err = "NoRedis"])
  /\ UNCHANGED <<config, store, redisVars, hist>>

\* const failed = await this.failed(); if (failed) {start = failed; ended = step(failed)}
ConsumeFailed(p) ==
  /\ At(p, "co_failed")
  /\ retry' = IF retry = <<>> THEN retry ELSE Tail(retry)
  /\ ttl' = [ttl EXCEPT !.retry = TtlOf(retry', @)]
  /\ IF Truthy(failedValue)
       THEN Set(p, [proc[p] EXCEPT !.pc = "co_epoch", !.start = failedValue,
                                   !.ended = onHandleStep(failedValue)])
       ELSE Set(p, [proc[p] EXCEPT !.pc = "co_latest"])
  /\ UNCHANGED <<config, store, lock, live, shadow, epoch, hist>>

\* epoch = await this.epoch()   (the retry branch)
ConsumeEpoch(p) ==
  /\ At(p, "co_epoch")
  /\ Set(p, [proc[p] EXCEPT !.pc = "co_occupy", !.ep = epochGet])
  /\ UNCHANGED <<config, store, redisVars, hist>>

\* if (await this.latest()) return; else [start, ended, epoch] = await this.atomic()
ConsumeLatest(p) ==
  /\ At(p, "co_latest")
  /\ IF latest THEN Return(p) ELSE Set(p, [proc[p] EXCEPT !.pc = "at_lock"])
  /\ UNCHANGED <<config, store, redisVars, hist>>

\* await this.occupy(start); the callback is invoked with (start, ended, epoch)
ConsumeOccupy(p) ==
  /\ At(p, "co_occupy")
  /\ occupy(p)
  /\ Set(p, [proc[p] EXCEPT !.pc = "co_callback", !.held = TRUE,
                            !.again = proc[p].start \in hist.succeeded])
  /\ hist' = IF "dispatch" \in hist.observe
               THEN [hist EXCEPT
                       !.dispatched = @ \cup {proc[p].start},
                       !.redispatched =
                          IF proc[p].start \in hist.dispatched
                            THEN @ \cup {proc[p].start} ELSE @]
               ELSE hist
  /\ UNCHANGED <<config, store>>

\* the worker stops for good while its callback runs (crash, or a callback
\* that never settles): nothing of the call runs after this
Crash(p) ==
  /\ At(p, "co_callback")
  /\ Set(p, [proc[p] EXCEPT !.pc = "crashed"])
  /\ UNCHANGED <<config, store, redisVars, hist>>

\* the worker's process dies at one of the awaits of consume() that follow
\* the claim of a start (outside the lock): nothing of the call runs after it
Stop(p) ==
  /\ proc[p].op = "consume"
  /\ proc[p].pc \in {"co_epoch", "co_occupy", "co_callback", "co_validate",
                     "co_fail", "co_release"}
  /\ Set(p, [proc[p] EXCEPT !.pc = "crashed"])
  /\ UNCHANGED <<config, store, redisVars, hist>>

\* a new instance is started in place of the one that died
Restart(p) ==
  /\ At(p, "crashed")
  /\ Set(p, Idle)
  /\ UNCHANGED <<config, store, redisVars, hist>>

\* the callback resolves
CallbackOk(p) ==
  /\ At(p, "co_callback")
  /\ Set(p, [proc[p] EXCEPT !.pc = "co_release"])
  /\ hist' = IF "success" \in hist.observe
               THEN [hist EXCEPT !.succeeded = @ \cup {proc[p].start}]
               ELSE hist
  /\ UNCHANGED <<config, store, redisVars>>

\* the callback rejects
CallbackFail(p) ==
  /\ At(p, "co_callback")
  /\ Set(p, [proc[p] EXCEPT !.pc = "co_validate", !.err = "Callback"])
  /\ UNCHANGED <<config, store, redisVars, hist>>

\* (mutant) the epoch-mismatch throw leaves without the finally block
ConsumeValidateNoFinally(p) ==
  /\ At(p, "co_validate")
  /\ IF ~validate(proc[p].ep)
       THEN Return(p)
       ELSE Set(p, [proc[p] EXCEPT !.pc = IF proc[p].retry THEN "co_fail"
                                          ELSE "co_release"])
  /\ UNCHANGED <<config, store, redisVars, hist>>

\* (mutant) the retry option is not looked at
ConsumeValidateIgnoreRetry(p) ==
  /\ At(p, "co_validate")
  /\ Set(p, [proc[p] EXCEPT !.pc = IF validate(proc[p].ep)
                                     THEN "co_fail" ELSE "co_release"])
  /\ UNCHANGED <<config, store, redisVars, hist>>

\* (mutant) the epoch is not compared
ConsumeValidateIgnoreEpoch(p) ==
  /\ At(p, "co_validate")
  /\ Set(p, [proc[p] EXCEPT !.pc = IF proc[p].retry
                                     THEN "co_fail" ELSE "co_release"])
  /\ UNCHANGED <<config, store, redisVars, hist>>

\* catch: if (!await this.validate(epoch)) throw; if (retry) fail(start); throw
ConsumeValidate(p) ==
  /\ At(p, "co_validate")
  /\ Set(p, [proc[p] EXCEPT !.pc = IF validate(proc[p].ep) /\ proc[p].retry
                                     THEN "co_fail" ELSE "co_release"])
  /\ UNCHANGED <<config, store, redisVars, hist>>

\* (mutant) the start is queued and the error is dropped
ConsumeFailSwallow(p) ==
  /\ At(p, "co_fail")
  /\ fail(p)
  /\ Set(p, [proc[p] EXCEPT !.pc = "co_release", !.err = ""])
  /\ UNCHANGED <<config, store, hist>>

\* if (retry) await this.fail(start)
ConsumeFail(p) ==
  /\ At(p, "co_fail")
  /\ fail(p)
  /\ Set(p, [proc[p] EXCEPT !.pc = "co_release"])
  /\ UNCHANGED <<config, store, hist>>

\* finally: await this.release(start)
ConsumeRelease(p) ==
  /\ At(p, "co_release")
  /\ release(p)
  /\ Set(p, [Idle EXCEPT !.pc = "done", !.op = "consume", !.err = proc[p].err])
  /\ UNCHANGED <<config, store, hist>>

\* the pipeline of fail(start) rejects (the coordinator is unreachable): the
\* rejection leaves the catch block in place of the callback's error, and the
\* finally block runs
ConsumeFailError(p) ==
  /\ At(p, "co_fail")
  /\ Set(p, [proc[p] EXCEPT !.pc = "co_release", !.err = "Redis"])
  /\ UNCHANGED <<config, store, redisVars, hist>>

\* the pipeline of release(start) rejects: the rejection leaves the finally
\* block, and consume(), in place of whatever was being thrown
ConsumeReleaseError(p) ==
  /\ At(p, "co_release")
  /\ Set(p, [Idle EXCEPT !.pc = "done", !.op = "consume", !.err = "Redis"])
  /\ UNCHANGED <<config, store, redisVars, hist>>

consume(p) ==
  \/ ConsumeFailed(p)
  \/ ConsumeEpoch(p)
  \/ ConsumeLatest(p)
  \/ atomic(p)
  \/ ConsumeOccupy(p)
  \/ CallbackOk(p)
  \/ CallbackFail(p)
  \/ ConsumeValidate(p)
  \/ ConsumeFail(p)
  \/ ConsumeRelease(p)

\* ------------------------------------------------------------ cleanup()
\* history: a cleanup() call returns
CleanupReturns(returns) ==
  hist' = IF returns /\ "cleanup" \in hist.observe
            THEN [hist EXCEPT !.cleaned = TRUE]
            ELSE hist

\* if (!this.redis) return; runningTasks = LRANGE live 0 -1
CleanupCall(p) ==
  /\ Free(p)
  /\ IF config.redis /\ live # <<>>
       THEN Set(p, [Idle EXCEPT !.pc = "cl_exists", !.op = "cleanup", !.snap = live])
       ELSE Set(p, [Idle EXCEPT !.pc = "done", !.op = "cleanup"])
  /\ CleanupReturns(~(config.redis /\ live # <<>>))
  /\ UNCHANGED <<config, store, redisVars>>

\* (mutant) every entry read is moved, its shadow present or not
CleanupExistsBlind(p) ==
  /\ At(p, "cl_exists")
  /\ Set(p, [proc[p] EXCEPT !.pc = "cl_move"])
  /\ UNCHANGED <<config, store, redisVars, hist>>

\* exists = EXISTS shadow:<startStr>; if (exists) continue
CleanupExists(p) ==
  /\ At(p, "cl_exists")
  /\ IF Head(proc[p].snap) \in shadow
       THEN IF Tail(proc[p].snap) = <<>>
              THEN Return(p)
              ELSE Set(p, [proc[p] EXCEPT !.snap = Tail(@)])
       ELSE Set(p, [proc[p] EXCEPT !.pc = "cl_move"])
  /\ CleanupReturns(Head(proc[p].snap) \in shadow /\ Tail(proc[p].snap) = <<>>)
  /\ UNCHANGED <<config, store, redisVars>>

\* (mutant) the zombie is queued for retry and left on the live-task list
CleanupMoveNoLrem(p) ==
  LET s == Head(proc[p].snap) IN
  /\ At(p, "cl_move")
  /\ Len(retry) < MaxQueue
  /\ retry' = Append(retry, s)
  /\ IF Tail(proc[p].snap) = <<>>
       THEN Return(p)
       ELSE Set(p, [proc[p] EXCEPT !.snap = Tail(@), !.pc = "cl_exists"])
  /\ CleanupReturns(Tail(proc[p].snap) = <<>>)
  /\ UNCHANGED <<config, store, lock, live, ttl, shadow, epoch>>

\* pipeline: LREM live 5 startStr; RPUSH failed startStr
CleanupMove(p) ==
  LET s == Head(proc[p].snap) IN
  /\ At(p, "cl_move")
  /\ Len(retry) < MaxQueue
  /\ live' = LREM(live, CleanupLremCount, s)
  /\ retry' = Append(retry, s)
  /\ ttl' = [ttl EXCEPT !.live = TtlOf(live', @)]
  /\ IF Tail(proc[p].snap) = <<>>
       THEN Return(p)
       ELSE Set(p, [proc[p] EXCEPT !.snap = Tail(@), !.pc = "cl_exists"])
  /\ CleanupReturns(Tail(proc[p].snap) = <<>>)
  /\ UNCHANGED <<config, store, lock, shadow, epoch>>

cleanup(p) ==
  \/ CleanupExists(p)
  \/ CleanupMove(p)

\* ----------------------------------------------------------- rollback()
\* (mutant) rollback enters without waiting for the holder of the lock
RollbackCallNoMutex(p, t) ==
  /\ Free(p)
  /\ epoch < MaxEpoch
  /\ lock' = p
  /\ Set(p, [Idle EXCEPT !.pc = "rb_current", !.op = "rollback", !.target = t])
  /\ UNCHANGED <<config, store, live, shadow, retry, epoch, ttl, hist>>

\* if (!this.currentLock) throw; currentLock.using: acquire
RollbackCall(p, t) ==
  /\ Free(p)
  /\ epoch < MaxEpoch
  /\ IF config.redis
       THEN /\ lock = NoProc
            /\ lock' = p
            /\ Set(p, [Idle EXCEPT !.pc = "rb_current", !.op = "rollback", !.target = t])
       ELSE /\ lock' = lock
            /\ Set(p, [Idle EXCEPT !.pc = "done", !.op = "rollback", !.target = t,
                                   !.err = "NoLock"])
  /\ UNCHANGED <<config, store, live, shadow, retry, epoch, ttl, hist>>

\* (mutant) the cursor is written before the hook is given the old value
RollbackCurrentWritesFirst(p) ==
  /\ At(p, "rb_current")
  /\ store' = proc[p].target
  /\ Set(p, [proc[p] EXCEPT !.pc = "rb_hook", !.cur = current])
  /\ UNCHANGED <<config, redisVars, hist>>

\* const current = await this.current()
RollbackCurrent(p) ==
  /\ At(p, "rb_current")
  /\ Set(p, [proc[p] EXCEPT !.pc = "rb_hook", !.cur = current])
  /\ UNCHANGED <<config, store, redisVars, hist>>

\* await this.onHandleRollback(current, target) resolves
RollbackHook(p) ==
  /\ At(p, "rb_hook")
  /\ Set(p, [proc[p] EXCEPT !.pc = "rb_next"])
  /\ UNCHANGED <<config, store, redisVars, hist>>

\* await this.onHandleRollback(current, target) rejects: using releases the lock
RollbackHookFail(p) ==
  /\ At(p, "rb_hook")
  /\ Throw(p, "Hook", NULL)
  /\ lock' = IF lock = p THEN NoProc ELSE lock
  /\ UNCHANGED <<config, store, live, shadow, retry, epoch, ttl, hist>>

\* await this.next(target)
RollbackNext(p) ==
  /\ At(p, "rb_next")
  /\ store' = proc[p].target
  /\ Set(p, [proc[p] EXCEPT !.pc = "rb_lrange"])
  /\ UNCHANGED <<config, redisVars, hist>>

\* clearRunningTasks: runningTasks = LRANGE live 0 -1
ClearRange(p) ==
  /\ At(p, "rb_lrange")
  /\ Set(p, [proc[p] EXCEPT !.pc = "rb_clear", !.snap = live])
  /\ UNCHANGED <<config, store, redisVars, hist>>

\* clearRunningTasks: pipeline DEL live (if any were read), DEL shadows, DEL failed
clearRunningTasks(p) ==
  /\ live' = IF proc[p].snap # <<>> THEN <<>> ELSE live
  /\ shadow' = shadow \ Range(proc[p].snap)
  /\ retry' = <<>>
  /\ ttl' = [live |-> TtlOf(live', ttl.live), retry |-> FALSE]
  /\ UNCHANGED <<lock, epoch>>

ClearPipeline(p) ==
  /\ At(p, "rb_clear")
  /\ clearRunningTasks(p)
  /\ Set(p, [proc[p] EXCEPT !.pc = "rb_incr", !.snap = <<>>])
  /\ UNCHANGED <<config, store, hist>>

\* (mutants) the counter is left alone / advanced by two
incrementEpochNone == epoch
incrementEpochTwice == epoch + 2

\* incrementEpoch(): INCR epoch
incrementEpoch == epoch + 1

\* await this.incrementEpoch(); the using block ends and releases the lock;
\* rollback returns
RollbackIncr(p) ==
  /\ At(p, "rb_incr")
  /\ epoch' = incrementEpoch
  /\ lock' = IF lock = p THEN NoProc ELSE lock
  /\ proc' = [q \in Procs |->
                IF q = p THEN [Idle EXCEPT !.pc = "done", !.op = "rollback"]
                ELSE [proc[q] EXCEPT
                        !.rolled = @ \/ proc[q].ep # NULL,
                        !.stale = @ \/ (proc[q].op = "consume" /\ proc[q].start # NULL)]]
  /\ hist' = [hist EXCEPT !.maxEpoch = Max(@, epoch')]
  /\ UNCHANGED <<config, store, live, shadow, retry, ttl>>

rollback(p) ==
  \/ RollbackCurrent(p)
  \/ RollbackHook(p)
  \/ RollbackHookFail(p)
  \/ RollbackNext(p)
  \/ ClearRange(p)
  \/ ClearPipeline(p)
  \/ RollbackIncr(p)

\* -------------------------------------------------------------- reset()
\* (mutant) the cursor is removed before the adapter is tested
ResetCallAlways(p) ==
  /\ Free(p)
  /\ store' = NULL
  /\ Set(p, [Idle EXCEPT !.pc = IF config.redis THEN "rs_del" ELSE "done",
                         !.op = "reset"])
  /\ UNCHANGED <<config, redisVars, hist>>

\* if (!this.redis) return; await this.storage.removeItem(this.storageKey)
ResetCall(p) ==
  /\ Free(p)
  /\ store' = IF config.redis THEN NULL ELSE store
  /\ Set(p, [Idle EXCEPT !.pc = IF config.redis THEN "rs_del" ELSE "done",
                         !.op = "reset"])
  /\ UNCHANGED <<config, redisVars, hist>>

\* (mutant) the shadow keys are deleted as well
ResetDelShadows(p) ==
  /\ At(p, "rs_del")
  /\ lock' = NoProc
  /\ live' = <<>>
  /\ retry' = <<>>
  /\ epoch' = 0
  /\ shadow' = {}
  /\ ttl' = [live |-> FALSE, retry |-> FALSE]
  /\ proc' = [q \in Procs |->
                IF q = p THEN [Idle EXCEPT !.pc = "done", !.op = "reset"]
                ELSE [proc[q] EXCEPT !.wiped = @ \/ proc[q].ep # NULL,
                                     !.robbed = @ \/ lock = q]]
  /\ UNCHANGED <<config, store, hist>>

\* await this.redis.del(lock key, live, failed, epoch)
ResetDel(p) ==
  /\ At(p, "rs_del")
  /\ lock' = NoProc
  /\ live' = <<>>
  /\ retry' = <<>>
  /\ epoch' = 0
  /\ ttl' = [live |-> FALSE, retry |-> FALSE]
  /\ proc' = [q \in Procs |->
                IF q = p THEN [Idle EXCEPT !.pc = "done", !.op = "reset"]
                ELSE [proc[q] EXCEPT !.wiped = @ \/ proc[q].ep # NULL,
                                     !.robbed = @ \/ lock = q]]
  /\ UNCHANGED <<config, store, shadow, hist>>


\* ------------------------------------------- calls of the other methods
\* a caller invokes occupy(v): if (!this.redis) return
OccupyCall(p, v) ==
  /\ Free(p)
  /\ IF config.redis
       THEN Set(p, [Idle EXCEPT !.pc = "oc_rpush", !.op = "occupy", !.start = v])
       ELSE Set(p, [Idle EXCEPT !.pc = "done", !.op = "occupy"])
  /\ UNCHANGED <<config, store, redisVars, hist>>

\* the pipeline of occupy(v) has run
OccupyPush(p) ==
  /\ At(p, "oc_rpush")
  /\ occupy(p)
  /\ Set(p, [Idle EXCEPT !.pc = "done", !.op = "occupy"])
  /\ UNCHANGED <<config, store, hist>>

\* a caller invokes release(v): if (!this.redis) return
ReleaseCall(p, v) ==
  /\ Free(p)
  /\ IF config.redis
       THEN Set(p, [Idle EXCEPT !.pc = "rl_lrem", !.op = "release", !.start = v])
       ELSE Set(p, [Idle EXCEPT !.pc = "done", !.op = "release"])
  /\ UNCHANGED <<config, store, redisVars, hist>>

\* the pipeline of release(v) has run
ReleaseRem(p) ==
  /\ At(p, "rl_lrem")
  /\ release(p)
  /\ Set(p, [Idle EXCEPT !.pc = "done", !.op = "release"])
  /\ UNCHANGED <<config, store, hist>>

\* a caller invokes validate(e); the epoch asked about is kept in ep
ValidateCall(p, e) ==
  /\ Free(p)
  /\ Set(p, [Idle EXCEPT !.pc = "done", !.op = "validate", !.ep = e,
                         !.valid = validate(e)])
  /\ UNCHANGED <<config, store, redisVars, hist>>

\* (mutant) current() stores the value it resolved
CurrentCallPersists(p) ==
  /\ Free(p)
  /\ store' = current
  /\ Set(p, [Idle EXCEPT !.pc = "done", !.op = "current", !.cur = current])
  /\ UNCHANGED <<config, redisVars, hist>>

\* a caller invokes initial(): the stored value, else onHandleInitial()
InitialCall(p) ==
  /\ Free(p)
  /\ Set(p, [Idle EXCEPT !.pc = "done", !.op = "initial", !.cur = current])
  /\ UNCHANGED <<config, store, redisVars, hist>>

\* a caller invokes latest(); the value returned is kept in valid
LatestCall(p) ==
  /\ Free(p)
  /\ Set(p, [Idle EXCEPT !.pc = "done", !.op = "latest", !.valid = latest])
  /\ UNCHANGED <<config, store, redisVars, hist>>

\* a caller invokes step(v); the value returned is kept in ended
StepCall(p, v) ==
  /\ Free(p)
  /\ Set(p, [Idle EXCEPT !.pc = "done", !.op = "step", !.start = v,
                         !.ended = onHandleStep(v)])
  /\ UNCHANGED <<config, store, redisVars, hist>>

\* a caller invokes current(); the value returned is kept in cur (NULL is
\* undefined)
CurrentCall(p) ==
  /\ Free(p)
  /\ Set(p, [Idle EXCEPT !.pc = "done", !.op = "current", !.cur = current])
  /\ UNCHANGED <<config, store, redisVars, hist>>

\* a caller invokes next(v): value !== undefined, setItem(v)
NextCall(p, v) ==
  /\ Free(p)
  /\ store' = v
  /\ Set(p, [Idle EXCEPT !.pc = "done", !.op = "next", !.target = v])
  /\ UNCHANGED <<config, redisVars, hist>>

\* a caller invokes next(): step() has read current()
NextStepCall(p) ==
  /\ Free(p)
  /\ current # NULL
  /\ current < MaxCursor
  /\ Set(p, [Idle EXCEPT !.pc = "nx_set", !.op = "next", !.cur = current])
  /\ UNCHANGED <<config, store, redisVars, hist>>

\* (mutant) next() writes the value it read
NextStepSetSame(p) ==
  /\ At(p, "nx_set")
  /\ store' = proc[p].cur
  /\ Set(p, [Idle EXCEPT !.pc = "done", !.op = "next", !.cur = proc[p].cur])
  /\ UNCHANGED <<config, redisVars, hist>>

\* next(): setItem(await this.step())
NextStepSet(p) ==
  /\ At(p, "nx_set")
  /\ store' = onHandleStep(proc[p].cur)
  /\ Set(p, [Idle EXCEPT !.pc = "done", !.op = "next", !.cur = proc[p].cur])
  /\ UNCHANGED <<config, redisVars, hist>>

\* ---------------------------------------------------------- key expiry
\* the process dies inside the using block of atomic() or rollback(), while
\* it holds the cursor lock: nothing of the call runs after this
CrashHolder(p) ==
  /\ lock = p
  /\ proc[p].pc \in {"at_current", "at_latest", "at_next", "at_epoch",
                     "rb_current", "rb_hook", "rb_next", "rb_lrange",
                     "rb_clear", "rb_incr"}
  /\ Set(p, [proc[p] EXCEPT !.pc = "crashed"])
  /\ UNCHANGED <<config, store, redisVars, hist>>

\* (mutant) the lock key has no expiry
LockNeverExpires ==
  /\ FALSE
  /\ UNCHANGED vars

\* the lock key of a holder that no longer extends it reaches its ttl
LockExpire ==
  /\ lock # NoProc
  /\ proc[lock].pc = "crashed"
  /\ lock' = NoProc
  /\ UNCHANGED <<config, store, live, shadow, retry, epoch, ttl, proc, hist>>

\* a shadow key reaches its runningTimeout
ShadowExpire ==
  /\ \E s \in shadow : shadow' = shadow \ {s}
  /\ UNCHANGED <<config, store, lock, live, retry, epoch, ttl, proc, hist>>

\* ------------------------------------------------------- specifications
\* process 1 is the administrator (rollback, reset); the others are workers
Admins == {1}
Workers == Procs \ Admins

\* atomic() callers only
InitAtomic == InitWith({TRUE}, {NULL}, {0, 1}, BOOLEAN, {"claims"})

NextAtomic == \E p \in Procs : AtomicCall(p) \/ atomic(p)

SpecAtomic == InitAtomic /\ [][NextAtomic]_vars

\* consume() workers under a concurrency cap of 1
InitAdmit == InitWith({TRUE}, {1}, {0}, {TRUE}, {})

NextAdmit == \E p \in Procs : ConsumeCall(p, TRUE) \/ consume(p)

SpecAdmit == InitAdmit /\ [][NextAdmit]_vars

\* consume() workers under a concurrency option of 0 or 1
InitAdmitAny == InitWith({TRUE}, {0, 1}, {0}, {TRUE}, {})

SpecAdmitAny == InitAdmitAny /\ [][NextAdmit]_vars

\* consume() workers and the cleanup() timer; no key expires
InitConsume == InitWith({TRUE}, {NULL}, {0}, {TRUE}, {"success"})

NextConsume ==
  \E p \in Procs :
    \/ ConsumeCall(p, TRUE)
    \/ consume(p)
    \/ CleanupCall(p)
    \/ cleanup(p)

SpecConsume == InitConsume /\ [][NextConsume]_vars

\* consume() workers (retry true or false) and an administrator's rollback(0)
InitRollback == InitWith({TRUE}, {NULL}, {0}, {TRUE}, {})

NextRollback ==
  \/ \E p \in Workers :
       \/ \E r \in BOOLEAN : ConsumeCall(p, r)
       \/ consume(p)
  \/ \E p \in Admins :
       \/ RollbackCall(p, 0)
       \/ rollback(p)

SpecRollback == InitRollback /\ [][NextRollback]_vars

\* rollback() and reset() by the administrator against one worker's
\* consume(): the epoch key is written by rollback() and reset() only, and
\* each worker compares it with an epoch of its own
OneWorker == {CHOOSE p \in Workers : TRUE}

NextReset ==
  \/ \E p \in OneWorker :
       \/ \E r \in BOOLEAN : ConsumeCall(p, r)
       \/ consume(p)
  \/ \E p \in Admins :
       \/ RollbackCall(p, 0)
       \/ rollback(p)
       \/ ResetCall(p)
       \/ ResetDel(p)

SpecReset == InitRollback /\ [][NextReset]_vars

\* the retry queue used through the public fail(v) and failed(), with the
\* first two starts of the indexer as the values
Starts == {onHandleInitial, onHandleStep(onHandleInitial)}

InitRetryQueue == InitWith({TRUE}, {NULL}, {0}, {TRUE}, {"fifo"})

NextRetryQueue ==
  \E p \in Procs :
    \/ \E v \in Starts : FailCall(p, v)
    \/ FailPush(p)
    \/ FailedCall(p)
    \/ FailedPop(p)

SpecRetryQueue == InitRetryQueue /\ [][NextRetryQueue]_vars

\* cleanup() on its own.  The cursor has reached MaxCursor; the last two
\* starts claimed are on the live-task list in any order and number (a start
\* sits there twice when it was retried before its first run released it),
\* each with its shadow present or expired; an earlier start may be queued
\* for retry.
Zombies == {JSONstringify(MaxCursor - 2), JSONstringify(MaxCursor - 1)}

ListsOf(S, n) == UNION {[1..k -> S] : k \in 0..n}

InitCleanup ==
  /\ config = [redis |-> TRUE, concurrency |-> NULL, initial |-> 0,
               latest |-> FALSE, initialFn |-> NULL]
  /\ store = MaxCursor
  /\ lock = NoProc
  /\ live \in ListsOf(Zombies, MaxLive)
  /\ shadow \in SUBSET Range(live)
  /\ retry \in {<<>>, <<JSONstringify(MaxCursor - 3)>>}
  /\ epoch = 0
  /\ ttl = [live |-> live # <<>>, retry |-> retry # <<>>]
  /\ proc = [p \in Procs |-> Idle]
  /\ hist = [HistInit({"cleanup"}) EXCEPT !.live0 = live, !.retry0 = retry]

\* one instance runs cleanup(), again and again
OneCleaner == {CHOOSE p \in Procs : TRUE}

NextCleanup == \E p \in OneCleaner : CleanupCall(p) \/ cleanup(p)

SpecCleanup == InitCleanup /\ [][NextCleanup]_vars

\* every instance runs cleanup()
NextCleanupAll == \E p \in Procs : CleanupCall(p) \/ cleanup(p)

SpecCleanupAll == InitCleanup /\ [][NextCleanupAll]_vars

\* zombie recovery: the workers consume and may stop for good in their
\* callback, shadows expire, and the administrator's instance keeps calling
\* cleanup() and consume() (its callbacks settle)
InitZombie == InitWith({TRUE}, {NULL}, {0}, {TRUE}, {"dispatch"})

NextZombie ==
  \/ \E p \in Workers :
       \/ ConsumeCall(p, TRUE)
       \/ consume(p)
       \/ Crash(p)
  \/ \E p \in Admins :
       \/ CleanupCall(p)
       \/ cleanup(p)
       \/ ConsumeCall(p, TRUE)
       \/ consume(p)
  \/ ShadowExpire

\* cleanup() and consume() keep being invoked and every call that is not
\* stopped runs on
FairZombie ==
  /\ \A p \in Admins :
       /\ SF_vars(CleanupCall(p))
       /\ SF_vars(ConsumeCall(p, TRUE))
       /\ WF_vars(cleanup(p))
       /\ WF_vars(consume(p))
  /\ \A p \in Workers : WF_vars(consume(p))

SpecZombieFair == InitZombie /\ [][NextZombie]_vars /\ FairZombie

\* an indexer without a redis adapter, with or without an initial value and
\* an overridden onHandleInitial: one caller uses the methods that need the
\* coordinator, the others the cursor controller
InitialFns == {NULL, 1}
InitSingle ==
  /\ config \in [redis : {FALSE}, concurrency : {NULL}, initial : {NULL, 0},
                  latest : {FALSE}, initialFn : InitialFns]
  /\ store = NULL
  /\ lock = NoProc
  /\ live = <<>>
  /\ shadow = {}
  /\ retry = <<>>
  /\ epoch = 0
  /\ ttl = [live |-> FALSE, retry |-> FALSE]
  /\ proc = [p \in Procs |-> Idle]
  /\ hist = HistInit({})

NextSingle ==
  \/ \E p \in Admins :
       \/ AtomicCall(p)
       \/ ConsumeCall(p, TRUE)
       \/ RollbackCall(p, 0)
       \/ OccupyCall(p, 0)
       \/ ReleaseCall(p, 0)
       \/ CleanupCall(p)
       \/ FailCall(p, 0)
       \/ FailedCall(p)
       \/ ResetCall(p)
       \/ \E e \in 0..MaxEpoch : ValidateCall(p, e)
  \/ \E p \in Workers :
       \/ CurrentCall(p)
       \/ \E v \in 0..MaxCursor : NextCall(p, v)
       \/ NextStepCall(p)
       \/ NextStepSet(p)

SpecSingle == InitSingle /\ [][NextSingle]_vars

\* workers that consume, die and are restarted, shadows that expire, and the
\* administrator's cleanup() timer
InitCrash == InitWith({TRUE}, {NULL}, {0}, {TRUE}, {"claims", "success"})

NextCrash ==
  \/ \E p \in Workers :
       \/ ConsumeCall(p, TRUE)
       \/ consume(p)
       \/ Stop(p)
       \/ Restart(p)
  \/ \E p \in Admins :
       \/ CleanupCall(p)
       \/ cleanup(p)
  \/ ShadowExpire

SpecCrash == InitCrash /\ [][NextCrash]_vars

\* consume() workers whose coordinator may reject the pipelines of fail()
\* and release()
NextFault ==
  \E p \in Procs :
    \/ \E r \in BOOLEAN : ConsumeCall(p, r)
    \/ consume(p)
    \/ ConsumeFailError(p)
    \/ ConsumeReleaseError(p)

SpecFault == InitRollback /\ [][NextFault]_vars

\* consume() workers only: no cleanup, no rollback, no reset, no expiry
SpecWorkers == InitRollback /\ [][NextAdmit]_vars

\* one worker's consume() and a caller of the read-only methods
NextReads ==
  \/ \E p \in OneWorker :
       \/ \E r \in BOOLEAN : ConsumeCall(p, r)
       \/ consume(p)
  \/ \E p \in Admins :
       \/ CurrentCall(p)
       \/ InitialCall(p)
       \/ LatestCall(p)
       \/ \E v \in 0..MaxCursor : StepCall(p, v)
       \/ \E e \in 0..MaxEpoch : ValidateCall(p, e)

SpecReads == InitRollback /\ [][NextReads]_vars

\* consume() workers, no terminal predicate, and one start whose callback
\* rejects on every attempt: the second start claimed (the first is 0, which
\* consume() does not retry; see failedValue / Truthy)
Poison == onHandleStep(onHandleInitial)

\* the callback settles: it rejects the poisoned start and resolves the others
CallbackSettles(p) ==
  IF proc[p].start = Poison THEN CallbackFail(p) ELSE CallbackOk(p)

\* the steps of a consume() call whose callback settles
consumeSettling(p) ==
  \/ ConsumeFailed(p)
  \/ ConsumeEpoch(p)
  \/ ConsumeLatest(p)
  \/ atomic(p)
  \/ ConsumeOccupy(p)
  \/ CallbackSettles(p)
  \/ ConsumeValidate(p)
  \/ ConsumeFail(p)
  \/ ConsumeRelease(p)

\* consume(callback) is invoked (while the cursor is below the bound)
ConsumeInvoke(p) == current < MaxCursor /\ ConsumeCall(p, TRUE)

InitPoison == InitWith({TRUE}, {NULL}, {0}, {FALSE}, {})

NextPoison == \E p \in Procs : ConsumeInvoke(p) \/ consumeSettling(p)

\* consume() keeps being invoked and every call runs on
FairPoison ==
  \A p \in Procs : SF_vars(ConsumeInvoke(p)) /\ WF_vars(consumeSettling(p))

SpecPoisonFair == InitPoison /\ [][NextPoison]_vars /\ FairPoison

\* atomic() callers and an administrator who calls atomic() and rollback(0)
\* and whose process may die while it holds the lock
InitLock == InitWith({TRUE}, {NULL}, {0}, {FALSE}, {})

NextLock ==
  \/ \E p \in Procs :
       \/ AtomicCall(p)
       \/ atomic(p)
  \/ \E p \in Admins :
       \/ RollbackCall(p, 0)
       \/ rollback(p)
       \/ CrashHolder(p)
  \/ LockExpire

\* time passes for the lock key, and every call that is not stopped runs on
FairLock ==
  /\ WF_vars(LockExpire)
  /\ \A p \in Procs : WF_vars(atomic(p)) /\ WF_vars(rollback(p))

SpecLockFair == InitLock /\ [][NextLock]_vars /\ FairLock

\* ----------------------------------------------------------------- claims
AllFree == \A p \in Procs : Free(p)

\* f^n(v): the step hook applied n times
RECURSIVE StepN(_, _)
StepN(v, n) == IF n = 0 THEN v ELSE onHandleStep(StepN(v, n - 1))

\* C1: N atomic() calls from cursor v0: the starts returned are exactly
\* f^0(v0) .. f^(N-1)(v0), no start is returned twice, and once every call
\* has returned the cursor is f^N(v0).
C1_AtomicStarts ==
  LET n == Cardinality(hist.claimed) IN
  /\ ~hist.dup
  /\ hist.claimed = {StepN(config.initial, i) : i \in 0..(n - 1)}
  /\ AllFree => current = StepN(config.initial, n)

\* two calls overlap (one waits for the lock the other holds) after an
\* earlier call has returned
C1_Witness ==
  \E p, q \in Procs :
    /\ proc[p].pc = "at_lock"
    /\ proc[q].pc = "at_epoch"
    /\ lock = q
    /\ hist.claimed # {}

\* C9: atomic() with latest() true throws ReachedLatest naming the current
\* value, and the call leaves cursor, lists, shadows and epoch as they were
\* (the lock is free again when it throws).
C9_ReachedLatest ==
  [][\A p \in Procs :
       (proc'[p] # proc[p] /\ proc[p].pc \in {"at_lock", "at_current", "at_latest"}
          /\ latest)
       => /\ UNCHANGED <<store, live, shadow, retry, epoch, ttl>>
          /\ proc[p].pc = "at_latest"
               => /\ proc'[p].pc = "done"
                  /\ proc'[p].err = "ReachedLatest"
                  /\ proc'[p].errv = current
                  /\ lock' = NoProc]_vars

C9_Witness ==
  \E p \in Procs :
    /\ proc[p].pc = "done"
    /\ proc[p].op = "atomic"
    /\ proc[p].err = "ReachedLatest"
    /\ proc[p].errv = store
    /\ store = LatestAt

\* C10: a successful atomic() returns (start, ended, epoch) with ended =
\* step(start) and the cursor already written with ended; from initial 0 the
\* n-th call (n = 0, 1, 2) returns (n, n + 1, 0), so the third leaves the
\* cursor at 3.
C10_AtomicTriple ==
  [][\A p \in Procs :
       (proc[p].pc = "at_epoch" /\ proc'[p].pc = "done")
       => LET r == proc'[p]
              n == Cardinality(hist.claimed)
          IN /\ r.err = ""
             /\ r.ended = onHandleStep(r.start)
             /\ store' = r.ended
             /\ r.ep = epoch
             /\ config.initial = 0 => <<r.start, r.ended, r.ep>> = <<n, n + 1, 0>>]_vars

C10_Witness ==
  \E p \in Procs :
    /\ config.initial = 0
    /\ proc[p].pc = "done"
    /\ <<proc[p].start, proc[p].ended, proc[p].ep>> = <<2, 3, 0>>
    /\ hist.claimed = {0, 1, 2}
    /\ store = 3

\* C2: absent rollback, reset and next(v), a start whose callback has
\* resolved is never passed to a callback again.
C2_NoRedispatch ==
  \A p \in Procs : proc[p].pc = "co_callback" => ~proc[p].again

\* C3: with concurrency configured, the live-task list never holds more
\* than concurrency entries.
C3_ConcurrencyCap ==
  config.concurrency # NULL => Len(live) <= config.concurrency

\* C4: a consume() call that finds LLEN(live) >= concurrency returns
\* normally, dispatches nothing, and leaves cursor, retry queue, live-task
\* list, shadows, epoch (and the lock) as they were.
C4_AdmissionReject ==
  [][\A p \in Procs :
       (Free(p) /\ proc'[p] # proc[p]
          /\ config.concurrency # NULL /\ Len(live) >= config.concurrency)
       => /\ proc'[p].pc = "done"
          /\ proc'[p].op = "consume"
          /\ proc'[p].err = ""
          /\ ~proc'[p].held
          /\ UNCHANGED <<store, lock, live, shadow, retry, epoch, ttl>>]_vars

\* start 0 is being processed by q, nothing else was ever claimed or
\* queued, and p's consume() call has returned: it was turned away
C4_Witness ==
  \E p, q \in Procs :
    /\ p # q
    /\ proc[q].pc = "co_callback"
    /\ proc[q].start = 0
    /\ store = 1
    /\ live = <<"0">>
    /\ retry = <<>>
    /\ proc[p].pc = "done"
    /\ proc[p].op = "consume"
    /\ proc[p].err = ""

C6_AfterRollback ==
  [][\A p \in Procs :
       (proc[p].pc = "rb_incr" /\ proc'[p].pc = "done")
       => /\ store' = proc[p].target
          /\ live' = <<>>
          /\ retry' = <<>>
          /\ epoch' > hist.maxEpoch]_vars

\* C7 as stated: validate(e) is true iff no rollback has happened since e
\* was handed out.
C7_ValidateIffNoRollback ==
  \A p \in Procs :
    proc[p].ep # NULL => (validate(proc[p].ep) <=> ~proc[p].rolled)

\* C7 amended: the same, for an epoch e since whose issue no reset() has
\* deleted the epoch key.
C7_ValidateIffNoRollbackNoReset ==
  \A p \in Procs :
    (proc[p].ep # NULL /\ ~proc[p].wiped)
      => (validate(proc[p].ep) <=> ~proc[p].rolled)

\* a callback handed epoch 0 has failed after a rollback raised the epoch
\* to 1, with no reset in between: consume() is about to validate(0)
C7_Witness ==
  \E p \in Procs :
    /\ proc[p].pc = "co_validate"
    /\ proc[p].ep = 0
    /\ proc[p].rolled
    /\ ~proc[p].wiped
    /\ epoch = 1

\* C8 as stated: the epoch never decreases and a rollback adds exactly 1.
C8_EpochMonotone ==
  [][/\ epoch' >= epoch
     /\ \A p \in Procs :
          (proc[p].pc = "rb_incr" /\ proc'[p].pc = "done") => epoch' = epoch + 1]_vars

\* C8 amended: the epoch never decreases except when reset() deletes the
\* key (it then reads 0), and a rollback adds exactly 1.
C8_EpochMonotoneButReset ==
  [][/\ epoch' >= epoch
          \/ \E p \in Procs :
               proc[p].pc = "rs_del" /\ proc'[p].pc = "done" /\ epoch' = 0
     /\ \A p \in Procs :
          (proc[p].pc = "rb_incr" /\ proc'[p].pc = "done") => epoch' = epoch + 1]_vars

\* a rollback has raised the epoch and a reset has deleted it
C8_Witness ==
  /\ hist.maxEpoch = 1
  /\ epoch = 0
  /\ \E p \in Procs : proc[p].pc = "done" /\ proc[p].op = "reset"

\* the step of p's consume() taken from position pc
ConsumeStep(p, pc) == proc[p].op = "consume" /\ proc[p].pc = pc /\ proc'[p].pc # pc

\* C11: the callback failed, retry is true and the epoch is the task's: the
\* start is appended to the tail of the retry queue, once (the call goes on
\* to release and never back to fail), and the callback's error is what
\* consume() throws.
C11_FailThenRethrow ==
  [][\A p \in Procs :
       /\ (ConsumeStep(p, "co_validate") /\ proc[p].retry /\ epoch = proc[p].ep)
            => proc'[p].pc = "co_fail" /\ retry' = retry
       /\ ConsumeStep(p, "co_fail")
            => /\ retry' = Append(retry, JSONstringify(proc[p].start))
               /\ proc'[p].pc = "co_release"
               /\ proc'[p].err = "Callback"
       /\ (ConsumeStep(p, "co_release") /\ proc[p].err = "Callback")
            => /\ retry' = retry
               /\ proc'[p].pc = "done"
               /\ proc'[p].err = "Callback"]_vars

\* a failed start sits on the retry queue and its consume() has thrown the
\* callback's error, the epoch being what it was
C11_Witness ==
  \E p \in Workers :
    /\ proc[p].pc = "done"
    /\ proc[p].op = "consume"
    /\ proc[p].err = "Callback"
    /\ retry = <<"1">>
    /\ epoch = 0

\* C12: with retry = false a failed callback leaves the retry queue as it
\* is and its error is what consume() throws.
C12_NoRetryNoFail ==
  [][\A p \in Procs :
       /\ (ConsumeStep(p, "co_validate") /\ ~proc[p].retry)
            => proc'[p].pc = "co_release" /\ retry' = retry
       /\ (ConsumeStep(p, "co_release") /\ ~proc[p].retry /\ proc[p].err = "Callback")
            => /\ retry' = retry
               /\ proc'[p].pc = "done"
               /\ proc'[p].err = "Callback"]_vars

\* a callback has failed under retry = false with the epoch unchanged: the
\* call is past its catch block, about to release, and nothing is queued
C12_Witness ==
  \E p \in Workers :
    /\ proc[p].pc = "co_release"
    /\ proc[p].err = "Callback"
    /\ ~proc[p].retry
    /\ ~proc[p].rolled
    /\ retry = <<>>
    /\ epoch = 0

\* C13: the callback failed and a rollback incremented the epoch after the
\* task got its epoch: the retry queue is left alone, release(start) runs
\* and the callback's error is what consume() throws.
C13_StaleEpochNoFail ==
  [][\A p \in Procs :
       /\ (ConsumeStep(p, "co_validate") /\ proc[p].rolled)
            => proc'[p].pc = "co_release" /\ retry' = retry
       /\ (ConsumeStep(p, "co_release") /\ proc[p].err = "Callback")
            => /\ retry' = retry
               /\ live' = LREM(live, 1, JSONstringify(proc[p].start))
               /\ shadow' = shadow \ {JSONstringify(proc[p].start)}
               /\ proc'[p].pc = "done"
               /\ proc'[p].err = "Callback"]_vars

\* a callback has failed across a rollback under retry = true: the call is
\* past its catch block, about to release, and nothing is queued
C13_Witness ==
  \E p \in Workers :
    /\ proc[p].pc = "co_release"
    /\ proc[p].err = "Callback"
    /\ proc[p].retry
    /\ proc[p].rolled
    /\ epoch = 1
    /\ retry = <<>>

\* C14: an admitted consume() that finds the retry queue non-empty takes
\* its head: start is the head, ended is step(start), the cursor stays, and
\* the call goes on to read the epoch without asking latest().
C14_RetryHeadDispatched ==
  [][\A p \in Procs :
       (ConsumeStep(p, "co_failed") /\ retry # <<>>)
       => /\ proc'[p].pc = "co_epoch"
          /\ proc'[p].start = JSONparse(Head(retry))
          /\ proc'[p].ended = onHandleStep(proc'[p].start)
          /\ retry' = Tail(retry)
          /\ store' = store]_vars

\* the values of a sequence of starts as Redis stores them
RECURSIVE Strings(_)
Strings(q) == IF q = <<>> THEN <<>> ELSE <<JSONstringify(Head(q))>> \o Strings(Tail(q))

\* C15: the retry queue is FIFO: the values failed() has returned are, in
\* order, the first values fail() has pushed, and the queue holds exactly
\* the pushed values not yet returned, in the order of their fail() calls.
C15_RetryFifo ==
  LET n == Len(hist.popped) IN
  /\ n <= Len(hist.pushed)
  /\ hist.popped = SubSeq(hist.pushed, 1, n)
  /\ retry = Strings(SubSeq(hist.pushed, n + 1, Len(hist.pushed)))

\* fail(1) then fail(0) have completed and one failed() has returned 1,
\* leaving 0 queued
C15_Witness ==
  /\ hist.pushed = <<1, 0>>
  /\ hist.popped = <<1>>
  /\ retry = <<"0">>
  /\ \E p \in Procs : proc[p].pc = "done" /\ proc[p].op = "failed" /\ proc[p].start = 1

Count(q, s) == Cardinality({i \in 1..Len(q) : q[i] = s})

Healthy(q) == LET Has(s) == s \in shadow IN SelectSeq(q, Has)

Expired(q) == LET Gone(s) == s \notin shadow IN SelectSeq(q, Gone)

\* C16: cleanup() moves exactly the zombies: when it has returned, the
\* live-task list is what it was without the entries whose shadow is gone,
\* and those entries, in their order and with their serialized value, have
\* been appended to the retry queue.
C16_CleanupMovesZombies ==
  hist.cleaned
  => /\ live = Healthy(hist.live0)
     /\ retry = hist.retry0 \o Expired(hist.live0)

\* cleanup() has returned from a list with one healthy entry and one zombie,
\* the retry queue holding an earlier start
C16_Witness ==
  \E h, z \in Zombies :
    /\ hist.cleaned
    /\ hist.live0 = <<h, z>>
    /\ hist.retry0 # <<>>
    /\ shadow = {h}
    /\ live = <<h>>
    /\ retry = hist.retry0 \o <<z>>

\* C17: once a cleanup() has returned, running cleanup() again with nothing
\* else in between changes neither the live-task list nor the retry queue.
C17_CleanupIdempotent ==
  [][hist.cleaned => (live' = live /\ retry' = retry)]_vars

\* a second cleanup() is reading the shadows after the first moved a zombie
C17_Witness ==
  \E p \in Procs :
    /\ hist.cleaned
    /\ proc[p].pc = "cl_exists"
    /\ live # <<>>
    /\ Len(retry) > Len(hist.retry0)

\* C18: when the cleanup() calls of all instances have returned, every
\* zombie is off the live-task list and is on the retry queue as many times
\* as it was on the live-task list (once for a start that was there once).
C18_ZombieMovedOnce ==
  (\A p \in Procs : proc[p].pc = "done" /\ proc[p].op = "cleanup")
  => \A z \in Range(hist.live0) \ shadow :
       /\ Count(live, z) = 0
       /\ Count(retry, z) = Count(hist.live0, z)

\* C19: a worker has stopped in its callback and the shadow of its start
\* has expired: with cleanup() and consume() invoked again and again the
\* start is eventually passed to a callback a second time.
C19_ZombieRecovered ==
  \A w \in Workers : \A s \in 0..MaxCursor :
    (proc[w].pc = "crashed" /\ proc[w].start = s /\ JSONstringify(s) \notin shadow)
      ~> (s \in hist.redispatched)

\* C20: consume() never lets ReachedLatest out: no consume() call ends
\* with that error.
C20_ConsumeSwallowsReachedLatest ==
  \A p \in Procs :
    (proc[p].pc = "done" /\ proc[p].op = "consume") => proc[p].err # "ReachedLatest"

\* a rollback() call of p takes a step from position pc
RollbackStep(p, pc) ==
  proc[p].op = "rollback" /\ proc[p].pc = pc /\ proc'[p].pc # pc

\* C21: rollback(target) hands onHandleRollback the cursor as it was before
\* the rollback (from) together with the target, and does so before it writes
\* the cursor; when the hook fails the call ends with the hook's error, the
\* lock is released, and cursor, live list, shadow keys, retry queue and epoch
\* are left as they were.
C21_HookBeforeWrite ==
  [][\A p \in Procs :
       /\ (Free(p) /\ proc'[p].pc = "rb_current")
            => UNCHANGED <<store, live, shadow, retry, epoch>>
       /\ RollbackStep(p, "rb_current")
            => /\ proc'[p].pc = "rb_hook"
               /\ proc'[p].cur = current
               /\ UNCHANGED <<store, live, shadow, retry, epoch>>
       /\ RollbackStep(p, "rb_hook")
            => /\ proc[p].cur = current
               /\ lock = p
               /\ UNCHANGED <<store, live, shadow, retry, epoch>>
               /\ proc'[p].pc = "done"
                    => proc'[p].err = "Hook" /\ lock' = NoProc]_vars

\* a rollback from cursor 1 to target 0 was aborted by its hook: the cursor is
\* still 1 and the epoch still 0
C21_Witness ==
  \E p \in Procs :
    /\ proc[p].pc = "done" /\ proc[p].op = "rollback" /\ proc[p].err = "Hook"
    /\ store = 1 /\ epoch = 0 /\ lock = NoProc

\* p is inside the using block of atomic(): between acquiring the lock and
\* reading the epoch
InAtomic(p) == proc[p].pc \in {"at_current", "at_latest", "at_next", "at_epoch"}

\* C22: rollback is atomic with respect to atomic(): from the moment an
\* atomic() holds the lock until it has read the epoch, nobody else changes the
\* cursor or the epoch, so the start and the epoch of the triple it returns
\* are both from before a rollback or both from after it.
C22_RollbackAtomicWrtAtomic ==
  [][\A p \in Procs :
       (InAtomic(p) /\ proc'[p].pc = proc[p].pc)
         => (store' = store /\ epoch' = epoch)]_vars

\* an atomic() that ran after a rollback to 0: it read start 0 from the
\* rolled-back cursor and is about to read the incremented epoch
C22_Witness ==
  \E p \in Procs :
    /\ proc[p].pc = "at_epoch" /\ proc[p].start = 0
    /\ epoch = 1 /\ lock = p

\* p starts a call of method op and the call reaches position pc in this step
Calls(p, op, pc) ==
  /\ Free(p)
  /\ proc'[p] # proc[p]
  /\ proc'[p].op = op
  /\ proc'[p].pc = pc

\* p makes a call of method op in this step
Called(p, op) == \E pc \in {proc'[p].pc} : Calls(p, op, pc)

\* C23: without a redis adapter atomic(), consume() and rollback() each end
\* at once with the error of the missing lock / missing redis; cursor and
\* coordinator state are left as they were and neither the consume callback
\* nor the rollback hook is reached.
C23_NoCoordinatorFails ==
  [][\A p \in Procs :
       (~config.redis /\ \E op \in {"atomic", "consume", "rollback"} : Called(p, op))
         => /\ proc'[p].pc = "done"
            /\ proc'[p].err \in {"NoLock", "NoRedis"}
            /\ (proc'[p].err = "NoRedis") = (proc'[p].op = "consume")
            /\ UNCHANGED <<store, redisVars>>]_vars

\* without an adapter and with the cursor at 2, the three calls have failed
\* and the cursor is still 2
C23_Witness ==
  /\ ~config.redis
  /\ store = 2
  /\ \E p \in Procs :
       /\ proc[p].pc = "done" /\ proc[p].op = "rollback"
       /\ proc[p].err = "NoLock"

\* C25: without a redis adapter occupy, release, cleanup, fail, failed and
\* reset return at once without an error and leave cursor and coordinator
\* state as they were (failed returns null, reset keeps the stored cursor),
\* and validate(e) is true exactly for e = 0.
C25_NoCoordinatorNoOps ==
  [][\A p \in Procs :
       /\ (~config.redis /\ \E op \in {"occupy", "release", "cleanup", "fail",
                                       "failed", "reset"} : Called(p, op))
            => /\ proc'[p].pc = "done"
               /\ proc'[p].err = ""
               /\ proc'[p].start = NULL
               /\ UNCHANGED <<store, redisVars>>
       /\ (~config.redis /\ Called(p, "validate"))
            => /\ proc'[p].valid = (proc'[p].ep = 0)
               /\ UNCHANGED <<store, redisVars>>]_vars

\* without an adapter a reset() has returned and the cursor written by
\* next(2) is still stored
C25_Witness ==
  /\ ~config.redis
  /\ store = 2
  /\ \E p \in Procs : proc[p].pc = "done" /\ proc[p].op = "reset"

\* C24: reset() on an indexer with a redis adapter removes the stored cursor,
\* so that current() is the resolved initial value again, and then deletes
\* the lock key, the live list, the retry queue and the epoch key, which
\* reads 0 from then on; it deletes no shadow key.
C24_ResetDeletes ==
  [][\A p \in Procs :
       /\ (config.redis /\ Calls(p, "reset", "rs_del"))
            => /\ store' = NULL
               /\ current' = onHandleInitial
               /\ UNCHANGED redisVars
       /\ (proc[p].pc = "rs_del" /\ proc'[p].pc = "done")
            => /\ lock' = NoProc
               /\ live' = <<>>
               /\ retry' = <<>>
               /\ epoch' = 0 /\ epochGet' = 0
               /\ shadow' = shadow
               /\ store' = store]_vars

\* a reset() has returned after a rollback and while a task was running: the
\* cursor is absent, lists and lock are gone, the epoch that had reached 1
\* reads 0, and the task's shadow key is still there
C24_Witness ==
  /\ \E p \in Procs : proc[p].pc = "done" /\ proc[p].op = "reset"
  /\ store = NULL /\ lock = NoProc /\ live = <<>> /\ retry = <<>>
  /\ epoch = 0 /\ hist.maxEpoch = 1
  /\ shadow # {}

\* C26: a current() call made while the store is empty, config.initial is
\* absent and onHandleInitial is not overridden ends with a misconfiguration
\* error instead of a value.
C26_CurrentFailsWithoutInitial ==
  [][\A p \in Procs :
       (/\ Called(p, "current")
        /\ store = NULL
        /\ config.initial = NULL
        /\ config.initialFn = NULL)
         => proc'[p].err # ""]_vars

\* C27: current() returns the stored value when there is one and otherwise the
\* resolved initial value (what an overridden onHandleInitial returns, else
\* config.initial), and it never writes the store; next(v) writes v whatever
\* the store holds; next() writes step(current()), which on an empty store is
\* step(initial).
C27_CurrentAndNext ==
  [][\A p \in Procs :
       LET resolved == IF config.initialFn # NULL THEN config.initialFn
                       ELSE config.initial
           read == IF store # NULL THEN store ELSE resolved
       IN /\ Called(p, "current")
               => proc'[p].cur = read /\ store' = store
          /\ Calls(p, "next", "done")
               => store' = proc'[p].target
          /\ Calls(p, "next", "nx_set")
               => proc'[p].cur = read /\ store' = store
          /\ (proc[p].pc = "nx_set" /\ proc'[p].pc = "done")
               => store' = onHandleStep(proc[p].cur)]_vars

\* a next() on the empty store of an indexer whose onHandleInitial is
\* overridden (1) and whose config.initial is 0 has resolved the initial value
\* 1 and not written it; it is about to write step(1)
C27_Witness ==
  \E p \in Procs :
    /\ proc[p].pc = "nx_set" /\ proc[p].cur = 1
    /\ store = NULL
    /\ config.initialFn = 1 /\ config.initial = 0

\* the serialized starts that a consume() has claimed (from atomic() or from
\* the retry queue) and not yet occupied
ClaimedBy(p) ==
  IF proc[p].op = "consume" /\ proc[p].pc \in {"co_epoch", "co_occupy"}
       /\ proc[p].start # NULL
    THEN {JSONstringify(proc[p].start)}
    ELSE {}

\* C28: with no rollback and no reset, every start is in at most one of:
\* claimed and not yet occupied, the live list, the retry queue; it is claimed
\* by at most one call and occurs at most once on each list.
C28_StartInOnePlace ==
  \A s \in {JSONstringify(v) : v \in 0..MaxCursor} :
    LET claims == Cardinality({p \in Procs : s \in ClaimedBy(p)}) IN
    /\ Count(live, s) <= 1
    /\ Count(retry, s) <= 1
    /\ claims + Count(live, s) + Count(retry, s) <= 1

\* p takes a step while it holds the cursor lock
StepsHolding(p) == lock = p /\ proc'[p] # proc[p]

\* C29 as stated: the stored cursor is written or deleted only by a step of
\* the process that holds the cursor lock, or by a caller's next(v) / next()
\* on an indexer without a redis adapter.
C29_CursorOnlyUnderLock ==
  [][store' # store
       => \E p \in Procs :
            \/ StepsHolding(p)
            \/ ~config.redis /\ proc'[p].op = "next" /\ proc'[p] # proc[p]]_vars

\* C29: the stored cursor is written only by a step of a process that holds
\* the cursor lock (atomic, rollback), or that held it until a reset() deleted
\* the lock key under it, or by a caller's next(v) / next() on an indexer
\* without a redis adapter; reset() deletes the cursor without taking the
\* lock.
C29_CursorOnlyUnderLockButReset ==
  [][store' # store
       => \E p \in Procs :
            \/ StepsHolding(p)
            \/ proc[p].robbed /\ proc'[p] # proc[p]
            \/ ~config.redis /\ proc'[p].op = "next" /\ proc'[p] # proc[p]
            \/ Calls(p, "reset", "rs_del") /\ store' = NULL]_vars

\* an atomic() holds the lock and has read start 1 from the store, and a
\* reset() of another process has removed the cursor meanwhile
C29_Witness ==
  \E p, q \in Procs :
    /\ p # q
    /\ proc[p].pc = "rs_del"
    /\ lock = q /\ proc[q].pc = "at_latest" /\ proc[q].start = 1
    /\ store = NULL

\* the positions of a call at which the pending await is one of the hooks
\* latest, step, onRollback
AtHook(p) == proc[p].pc \in {"at_latest", "at_next", "rb_hook"}

\* the consume callback of p is running
AtCallback(p) == proc[p].op = "consume" /\ proc[p].pc = "co_callback"

\* C30 as stated: the process that holds the cursor lock runs neither a hook
\* nor a consume callback.
C30_NoUserCodeUnderLock ==
  \A p \in Procs : lock = p => ~AtHook(p) /\ ~AtCallback(p)

\* C30: the process that holds the cursor lock never runs a consume callback;
\* atomic() and rollback() have released the lock before the caller's
\* callback starts (the latest, step and onRollback hooks do run inside the
\* critical section).
C30_NoCallbackUnderLock ==
  \A p \in Procs : lock = p => ~AtCallback(p)

\* a rollback holds the lock and is awaiting its onRollback hook while a
\* worker's callback runs outside the lock
C30_Witness ==
  \E p, q \in Procs :
    /\ lock = p /\ proc[p].pc = "rb_hook"
    /\ AtCallback(q)

\* C33: whenever the retry queue is not empty its key carries an expiry
\* (retryTimeout): every push, by fail() or by cleanup(), sets or refreshes
\* it.
C33_RetryQueueHasTtl ==
  retry # <<>> => ttl.retry

\* C40: with any configured concurrency C >= 0, C = 0 included, a consume()
\* call that finds LLEN(live) >= C returns at once and dispatches nothing.
C40_AdmissionForEveryCap ==
  [][\A p \in Procs :
       (/\ Called(p, "consume")
        /\ config.concurrency # NULL
        /\ Len(live) >= config.concurrency)
         => proc'[p].pc = "done" /\ UNCHANGED <<store, redisVars>>]_vars

\* C32: for a zombie it moves, cleanup() removes at most one occurrence of
\* the serialized start from the live-task list, as release() does, so that
\* an entry for the same start appended meanwhile by another consume() loses
\* at most one occurrence.
C32_CleanupRemovesOne ==
  [][\A p \in Procs :
       (proc[p].pc = "cl_move" /\ proc'[p].pc # "cl_move")
         => Count(live', Head(proc[p].snap)) >= Count(live, Head(proc[p].snap)) - 1]_vars

\* C35: with retry = true and no rollback, reset or retry-queue expiry, every
\* start that atomic() has claimed (or failed() has dequeued) and whose
\* callback has not resolved is held by a consume() call that is still
\* running, or is on the live-task list, or is on the retry queue.
C35_NoClaimLost ==
  \A s \in hist.claimed \ hist.succeeded :
    \/ \E p \in Procs :
         /\ proc[p].op = "consume"
         /\ proc[p].pc \notin {"idle", "done", "crashed"}
         /\ proc[p].start = s
    \/ JSONstringify(s) \in Range(live)
    \/ JSONstringify(s) \in Range(retry)

\* C31: once the callback of a consume() has failed, the call ends with the
\* callback's error, also when fail(start) or release(start) fails with a
\* coordinator error after it.
C31_CallbackErrorSurfaces ==
  [][\A p \in Procs :
       (/\ proc[p].op = "consume"
        /\ proc[p].pc \in {"co_validate", "co_fail", "co_release"}
        /\ proc[p].err = "Callback"
        /\ proc'[p].pc # proc[p].pc)
         => proc'[p].err = "Callback"]_vars

\* C36: a start that was claimed by atomic() or dequeued from the retry queue
\* before a rollback completed is, after that rollback, neither handed to a
\* callback together with an epoch read after the rollback nor appended to
\* the retry queue by consume's error path.
C36_RollbackInvalidates ==
  [][\A p \in Procs :
       (proc[p].op = "consume" /\ proc[p].stale)
         => /\ ConsumeStep(p, "co_occupy") => proc[p].rolled
            /\ ~ConsumeStep(p, "co_fail")]_vars

\* C37: the release(start) of one consume() never removes the live-list entry
\* or the shadow key of another consume() whose callback is still running:
\* with no expiry and no rollback, every running callback has its start on
\* the live-task list and its shadow key exists.
C37_ReleaseIsolation ==
  \A p \in Procs :
    AtCallback(p)
      => /\ JSONstringify(proc[p].start) \in Range(live)
         /\ JSONstringify(proc[p].start) \in shadow

\* C39: current(), initial(), latest(), step(v) and validate(e) change
\* neither the stored cursor nor the live-task list, the shadow keys, the
\* retry queue or the epoch; current() on an empty store returns the initial
\* value and does not store it.
C39_ReadsHaveNoEffect ==
  [][\A p \in Procs :
       (\E op \in {"current", "initial", "latest", "step", "validate"} : Called(p, op))
         => /\ UNCHANGED <<store, live, shadow, retry, epoch, lock, ttl>>
            /\ proc'[p].pc = "done"
            /\ (proc'[p].op = "current" /\ store = NULL)
                 => proc'[p].cur = onHandleInitial]_vars

\* current() has returned the initial value 0 and the store is still empty
C39_Witness ==
  \E p \in Procs :
    /\ proc[p].pc = "done" /\ proc[p].op = "current" /\ proc[p].cur = 0
    /\ store = NULL

\* C38: with consume() invoked again and again, no terminal predicate and no
\* concurrency cap, the cursor is eventually advanced from every value it
\* takes (below the bound), also when the callback of one start fails on
\* every attempt with retry = true.
C38_FreshLaneProgress ==
  \A c \in 0..(MaxCursor - 1) : (current = c) ~> (current > c)

\* C34: a holder of the cursor lock that died inside atomic() or rollback()
\* does not block the others: its lock key expires, and an atomic() of
\* another process that is waiting for the lock eventually acquires it and
\* returns a claim.
C34_CrashedHolderDoesNotBlock ==
  \A p, q \in Procs :
    (p # q /\ proc[p].pc = "crashed" /\ lock = p /\ proc[q].pc = "at_lock")
      ~> (/\ proc[q].pc = "done" /\ proc[q].op = "atomic"
          /\ proc[q].err = "" /\ proc[q].start # NULL /\ proc[q].ep # NULL)

\* the administrator died while holding the lock, and another process holds
\* the lock now
C34_Witness ==
  \E p, q \in Procs :
    /\ p # q
    /\ proc[p].pc = "crashed"
    /\ lock = q /\ proc[q].pc = "at_epoch"

====
